---- MODULE Spec2Model ----
(***************************************************************************)
(* Contest participation system: joinContest / submitContest handlers of   *)
(* services/userService.js, the Participation and Contest models, and the  *)
(* administrator's changeStatus, as a state machine over the durable store.*)
(* Every handler is an async function: each action below is one store      *)
(* operation together with the synchronous code that runs when its await   *)
(* resumes, up to the point where the next store operation is issued.      *)
(***************************************************************************)
EXTENDS Integers, Sequences, FiniteSets, TLC

(* ------------------------------ bounds --------------------------------- *)
\* number of requests (calls) the model issues; a finished call keeps its
\* response on record
MaxCalls == 2
\* number of clock ticks the model lets pass
MaxTicks == 3
\* largest capacity the contest of the initial state may have
MaxCap == 2
\* number of identities issuing requests
NumUsers == 2
\* longest selectedOptions array of a graded answer
MaxSelected == 3
\* option indices a graded answer may name: 0 .. MaxOptions - 1
MaxOptions == 3
\* longest answers array handed to the grader
MaxAnswers == 2
\* number of participation records in the store the leaderboard reads
MaxRows == 3
\* number of contests createContest may bring the store to
MaxContests == 2

(* --------------------------- program data ------------------------------ *)
\* one clock tick, in milliseconds (Date values are milliseconds)
TickMillis == 500

Calls == 1..MaxCalls
Users == 1..NumUsers
\* ids a request may name in req.params.id
ContestIds == {1}

\* submittedAt: { default: null }
NullDate == -1

\* req.user.role as supplied by the authenticate middleware
Role(u) == IF u % 2 = 1 THEN "normal" ELSE "vip"

\* a request without req.user (optionalAuth found no token)
Anonymous == 0

\* a gate that lets every caller through
VipOnly_Open(contest, u) == FALSE

\* the VIP gate: contest.type === "VIP" and the caller is absent or has a
\* role other than vip and admin
VipOnly(contest, u) ==
  /\ contest.type = "VIP"
  /\ \/ u = Anonymous
     \/ Role(u) # "vip" /\ Role(u) # "admin"

SingleQ == [type |-> "single-select", options |-> <<TRUE, FALSE>>, points |-> 2]
MultiQ == [type |-> "multi-select", options |-> <<TRUE, TRUE, FALSE>>, points |-> 3]

\* question lists the contest of the initial state may carry
QuestionLists == { <<SingleQ, MultiQ>> }

\* a newly created contest (schema defaults: status UPCOMING,
\* currentParticipants 0, isActive true) whose questions were added
\* before its start time
NewContest(type, cap, qs) ==
  [name |-> "name0", description |-> "description0",
   prizeInfo |-> "prizeInfo0",
   type |-> type, startTime |-> TickMillis, endTime |-> 2 * TickMillis,
   status |-> "UPCOMING", questions |-> qs, maxParticipants |-> cap,
   currentParticipants |-> 0, isActive |-> TRUE]

\* a newly constructed participation document (schema defaults)
NewParticipation(u, cid, joinedAt, totalQuestions) ==
  [userId |-> u, contestId |-> cid, joinedAt |-> joinedAt,
   submittedAt |-> NullDate, answers |-> <<>>, score |-> 0,
   totalQuestions |-> totalQuestions, correctAnswers |-> 0,
   wrongAnswers |-> 0, isCompleted |-> FALSE, timeSpent |-> 0]

NoContest == NewContest("NORMAL", 1, <<>>)
NoDoc == NewParticipation(0, 0, 0, 0)

Ans(qi, sel) == [questionIndex |-> qi, selectedOptions |-> sel,
                 isCorrect |-> FALSE, pointsEarned |-> 0]

\* request bodies of submitContest (already past validateSubmitAnswers)
AnswerInputs ==
  { << Ans(0, <<0>>), Ans(1, <<1, 0>>) >>,       \* all correct
    << Ans(0, <<1>>), Ans(1, <<0>>) >>,          \* all wrong
    << Ans(0, <<0>>) >>,                         \* too few answers
    << Ans(0, <<0, 1>>), Ans(1, <<0, 1>>) >>,    \* single-select with two options
    << Ans(0, <<7>>), Ans(6, <<0>>) >> }         \* option 7 and question 6 do not exist

(* ------------------------- Participation model ------------------------- *)
RECURSIVE DecStr(_)
\* String(n): the decimal digits of n
DecStr(n) == IF n < 10 THEN <<n>> ELSE Append(DecStr(n \div 10), n % 10)

RECURSIVE StrLeq(_, _)
\* a <= b in the string order Array.prototype.sort() uses by default
StrLeq(a, b) ==
  IF a = <<>> THEN TRUE
  ELSE IF b = <<>> THEN FALSE
  ELSE IF Head(a) # Head(b) THEN Head(a) < Head(b)
  ELSE StrLeq(Tail(a), Tail(b))

RECURSIVE Insert(_, _)
Insert(x, s) ==
  IF s = <<>> THEN <<x>>
  ELSE IF StrLeq(DecStr(x), DecStr(Head(s))) THEN <<x>> \o s
  ELSE <<Head(s)>> \o Insert(x, Tail(s))

RECURSIVE Sort(_)
\* array.sort() with no comparator
Sort(s) == IF s = <<>> THEN <<>> ELSE Insert(Head(s), Sort(Tail(s)))

\* indices (0-based) of the options whose isCorrect flag is set, ascending
RECURSIVE CorrectOptions(_, _)
CorrectOptions(options, i) ==
  IF i > Len(options) THEN <<>>
  ELSE (IF options[i] THEN <<i - 1>> ELSE <<>>) \o CorrectOptions(options, i + 1)

\* any existing first option counted as correct
FirstSelectedIsCorrect_AnyOption(question, sel) ==
  /\ Len(sel) >= 1
  /\ sel[1] + 1 \in 1..Len(question.options)

\* question.options[answer.selectedOptions[0]] && its isCorrect
FirstSelectedIsCorrect(question, sel) ==
  /\ Len(sel) >= 1
  /\ sel[1] + 1 \in 1..Len(question.options)
  /\ question.options[sel[1] + 1]

\* body of the forEach in calculateScore for an answer whose question exists
GradeAnswer(answer, question) ==
  LET sorted == Sort(answer.selectedOptions)
      isCorrect ==
        IF question.type = "single-select"
        THEN FirstSelectedIsCorrect(question, answer.selectedOptions)
        ELSE IF question.type = "multi-select"
        THEN sorted = Sort(CorrectOptions(question.options, 1))
        ELSE IF question.type = "true-false"
        THEN FirstSelectedIsCorrect(question, answer.selectedOptions)
        ELSE FALSE
  IN [questionIndex |-> answer.questionIndex,
      selectedOptions |-> IF question.type = "multi-select" THEN sorted
                          ELSE answer.selectedOptions,
      isCorrect |-> isCorrect,
      pointsEarned |-> IF isCorrect THEN question.points ELSE 0]

HasQuestion(answer, contestQuestions) ==
  answer.questionIndex + 1 \in 1..Len(contestQuestions)

RECURSIVE GradeAll(_, _)
\* the answers after the forEach; an answer without a question is skipped
GradeAll(answers, contestQuestions) ==
  IF answers = <<>> THEN <<>>
  ELSE LET a == Head(answers)
       IN << IF HasQuestion(a, contestQuestions)
             THEN GradeAnswer(a, contestQuestions[a.questionIndex + 1])
             ELSE a >> \o GradeAll(Tail(answers), contestQuestions)

RECURSIVE SumPoints(_, _)
SumPoints(graded, contestQuestions) ==
  IF graded = <<>> THEN 0
  ELSE (IF HasQuestion(Head(graded), contestQuestions)
        THEN Head(graded).pointsEarned ELSE 0)
       + SumPoints(Tail(graded), contestQuestions)

Count(graded, contestQuestions, flag) ==
  Cardinality({i \in 1..Len(graded) :
                 /\ HasQuestion(graded[i], contestQuestions)
                 /\ graded[i].isCorrect = flag})

\* a scoring that marks the record completed without a submission time
calculateScore_NoSubmittedAt(doc, contestQuestions, t) ==
  [doc EXCEPT !.isCompleted = TRUE]

\* participation.calculateScore(contest.questions), run at time t
calculateScore(doc, contestQuestions, t) ==
  LET graded == GradeAll(doc.answers, contestQuestions)
  IN [doc EXCEPT !.answers = graded,
                 !.score = SumPoints(graded, contestQuestions),
                 !.correctAnswers = Count(graded, contestQuestions, TRUE),
                 !.wrongAnswers = Count(graded, contestQuestions, FALSE),
                 !.isCompleted = TRUE,
                 !.submittedAt = t]

\* participation.calculateTimeSpent()
calculateTimeSpent(doc) ==
  IF doc.submittedAt # NullDate
  THEN [doc EXCEPT !.timeSpent = (doc.submittedAt - doc.joinedAt) \div 1000]
  ELSE doc

VARIABLES contests, participations, now, call

vars == <<contests, participations, now, call>>

\* let userRank = null
NullRank == 0

\* no contestData in the response
NoDetail == [hasQuestions |-> FALSE, hasJoined |-> FALSE, canJoin |-> FALSE]

IdleCall ==
  [op |-> "idle", pc |-> "idle", user |-> 0, cid |-> 0,
   contest |-> NoContest, doc |-> NoDoc, local |-> NoDoc, idx |-> 0,
   now |-> 0, answers |-> <<>>, result |-> "none", err |-> "none",
   wrote |-> {}, leaderboard |-> <<>>, userRank |-> NullRank,
   body |-> <<>>, edit |-> NoContest, listing |-> <<>>, total |-> 0,
   detail |-> NoDetail]

\* the contest as joinContest leaves it after user u joined at the start
\* time under status ONGOING
JoinedContest(type, cap, qs) ==
  [NewContest(type, cap, qs) EXCEPT !.status = "ONGOING",
                                    !.currentParticipants = 1]

\* a contest that nobody has joined yet, before its start time
InitFresh ==
  /\ call = [r \in Calls |-> IdleCall]
  /\ \E type \in {"NORMAL"}, cap \in 1..MaxCap, qs \in QuestionLists :
        /\ contests = [c \in ContestIds |-> NewContest(type, cap, qs)]
        /\ participations = <<>>
        /\ now = 0

\* the same contest at its start time, opened, with user 1 already joined
InitJoined ==
  /\ call = [r \in Calls |-> IdleCall]
  /\ \E type \in {"NORMAL"}, cap \in 1..MaxCap, qs \in QuestionLists :
        /\ contests = [c \in ContestIds |-> JoinedContest(type, cap, qs)]
        /\ participations =
              << NewParticipation(1, 1, TickMillis, Len(qs)) >>
        /\ now = TickMillis

Init == InitFresh \/ InitJoined

(* ------------------------------ store ---------------------------------- *)
\* Participation.findOne({userId, contestId}): index of the first match, 0 if none
FindOne(u, cid) ==
  LET S == {i \in 1..Len(participations) :
              participations[i].userId = u /\ participations[i].contestId = cid}
  IN IF S = {} THEN 0 ELSE CHOOSE i \in S : \A j \in S : i <= j

\* a store without the unique index accepts every insert
DuplicateKey_NoIndex(u, cid) == FALSE

\* the unique index { userId: 1, contestId: 1 } rejects the insert (E11000)
DuplicateKey(u, cid) ==
  \E i \in 1..Len(participations) :
     participations[i].userId = u /\ participations[i].contestId = cid

\* document.save(): $set of the paths whose value differs from the value read
SaveModified(stored, snap, local) ==
  [f \in DOMAIN stored |-> IF local[f] # snap[f] THEN local[f] ELSE stored[f]]

\* requests take the slots in order
FreeSlot(r) ==
  /\ call[r].op = "idle"
  /\ \A q \in Calls : q < r => call[q].op # "idle"

\* the handler returns: the request and its locals (the documents it read)
\* go out of scope, the response stays on record
Finish(c, result) ==
  [c EXCEPT !.pc = "done", !.result = result, !.contest = NoContest,
            !.doc = NoDoc, !.local = NoDoc, !.idx = 0, !.now = 0,
            !.answers = <<>>, !.body = <<>>, !.edit = NoContest]

(* ---------------------------- joinContest ------------------------------ *)
\* Contest.findById, then the not-found / inactive / VIP checks
joinContest_findById(r, u, cid) ==
  /\ FreeSlot(r)
  /\ LET c0 == [IdleCall EXCEPT !.op = "join", !.user = u, !.cid = cid]
     IN IF cid \notin DOMAIN contests
        THEN call' = [call EXCEPT ![r] = Finish(c0, "ContestNotFound")]
        ELSE LET contest == contests[cid]
                 c1 == [c0 EXCEPT !.contest = contest]
             IN IF ~contest.isActive
                THEN call' = [call EXCEPT ![r] = Finish(c1, "ContestNotActive")]
                ELSE IF VipOnly(contest, u)
                THEN call' = [call EXCEPT ![r] = Finish(c1, "AccessDenied")]
                ELSE call' = [call EXCEPT ![r] = [c1 EXCEPT !.pc = "j_findOne"]]
  /\ UNCHANGED <<contests, participations, now>>

\* the timing checks with both bounds exclusive
NotOpen_Exclusive(contest, t) ==
  IF t <= contest.startTime THEN "NotStarted"
  ELSE IF t >= contest.endTime THEN "AlreadyEnded"
  ELSE IF contest.status # "ONGOING" THEN "NotOngoing"
  ELSE "Open"

\* the timing and status checks of joinContest at time t, in the order of
\* the code: "Contest has not started yet", "Contest has already ended",
\* "Contest is not currently ongoing"
NotOpen(contest, t) ==
  IF t < contest.startTime THEN "NotStarted"
  ELSE IF t > contest.endTime THEN "AlreadyEnded"
  ELSE IF contest.status # "ONGOING" THEN "NotOngoing"
  ELSE "Open"

\* Participation.findOne, then the already-joined, timing, status and
\* capacity checks against the contest document read by findById
joinContest_findOne(r) ==
  /\ call[r].op = "join" /\ call[r].pc = "j_findOne"
  /\ LET c == [call[r] EXCEPT !.now = now]
         contest == c.contest
         existingParticipation == FindOne(c.user, c.cid)
     IN call' = [call EXCEPT ![r] =
          IF existingParticipation # 0 THEN Finish(c, "AlreadyJoined")
          ELSE IF NotOpen(contest, now) # "Open"
          THEN Finish(c, NotOpen(contest, now))
          ELSE IF contest.currentParticipants >= contest.maxParticipants
          THEN Finish(c, "Full")
          ELSE [c EXCEPT !.pc = "j_create"]]
  /\ UNCHANGED <<contests, participations, now>>

\* Participation.create; a duplicate key is thrown into the catch block
joinContest_create(r) ==
  /\ call[r].op = "join" /\ call[r].pc = "j_create"
  /\ LET c == call[r]
     IN IF DuplicateKey(c.user, c.cid)
        THEN /\ call' = [call EXCEPT ![r] =
                   [Finish(c, "InternalError") EXCEPT !.err = "E11000"]]
             /\ UNCHANGED participations
        ELSE /\ participations' = Append(participations,
                   NewParticipation(c.user, c.cid, c.now,
                                    Len(c.contest.questions)))
             /\ call' = [call EXCEPT ![r] =
                   [c EXCEPT !.pc = "j_save",
                             !.wrote = @ \cup {"participation"}]]
  /\ UNCHANGED <<contests, now>>

\* contest.currentParticipants += 1; contest.save(); 201. The save of a
\* document that is no longer in the store throws into the catch block.
joinContest_save(r) ==
  /\ call[r].op = "join" /\ call[r].pc = "j_save"
  /\ LET c == call[r]
         local == [c.contest EXCEPT !.currentParticipants = @ + 1]
     IN IF c.cid \notin DOMAIN contests
        THEN /\ call' = [call EXCEPT ![r] =
                   [Finish(c, "InternalError") EXCEPT !.err = "DocumentNotFound"]]
             /\ UNCHANGED contests
        ELSE /\ contests' = [contests EXCEPT ![c.cid] =
                               SaveModified(contests[c.cid], c.contest, local)]
             /\ call' = [call EXCEPT ![r] =
                   [Finish(c, "Success") EXCEPT !.wrote = @ \cup {"counter"}]]
  /\ UNCHANGED <<participations, now>>

(* --------------------------- submitContest ----------------------------- *)
\* number of responses the validation forEach sends for one answer: its
\* `return res.status(400).json(...)` leaves the callback, not the handler
AnswerSends(answer, questions) ==
  IF ~HasQuestion(answer, questions) THEN 1
  ELSE LET question == questions[answer.questionIndex + 1]
           sel == answer.selectedOptions
           outOfRange == Cardinality({i \in 1..Len(sel) :
                            sel[i] < 0 \/ sel[i] >= Len(question.options)})
       IN outOfRange
          + (IF question.type = "single-select" /\ Len(sel) # 1 THEN 1
             ELSE IF question.type = "true-false" /\ Len(sel) # 1 THEN 1
             ELSE 0)

RECURSIVE ValidationSends(_, _)
ValidationSends(answers, questions) ==
  IF answers = <<>> THEN 0
  ELSE AnswerSends(Head(answers), questions)
       + ValidationSends(Tail(answers), questions)

\* submitContest reads only endTime and questions of the contest document
\* it fetched; the fields it never reads are not kept in the call
SubmitView(contest) ==
  [contest EXCEPT !.status = NoContest.status,
                  !.currentParticipants = NoContest.currentParticipants,
                  !.maxParticipants = NoContest.maxParticipants]

\* a handler that never looks at the completion flag
IsCompleted_Unchecked(participation) == FALSE

\* if (participation.isCompleted)
IsCompleted(participation) == participation.isCompleted

\* Contest.findById and the not-found check
submitContest_findById(r, u, cid, answers) ==
  /\ FreeSlot(r)
  /\ LET c0 == [IdleCall EXCEPT !.op = "submit", !.user = u, !.cid = cid,
                                !.answers = answers]
     IN call' = [call EXCEPT ![r] =
          IF cid \notin DOMAIN contests THEN Finish(c0, "ContestNotFound")
          ELSE [c0 EXCEPT !.contest = SubmitView(contests[cid]),
                          !.pc = "s_findOne"]]
  /\ UNCHANGED <<contests, participations, now>>

\* the end instant itself counted as ended
HasEnded_Inclusive(contest, t) == t >= contest.endTime

\* "Contest has already ended": now > contest.endTime
HasEnded(contest, t) == t > contest.endTime

\* Participation.findOne, the joined / completed / timing / count checks,
\* the validation loop, calculateScore and calculateTimeSpent
submitContest_findOne(r) ==
  /\ call[r].op = "submit" /\ call[r].pc = "s_findOne"
  /\ LET idx == FindOne(call[r].user, call[r].cid)
         participation == IF idx = 0 THEN NoDoc ELSE participations[idx]
         c == [call[r] EXCEPT !.idx = idx, !.doc = participation]
         contest == c.contest
         sends == ValidationSends(c.answers, contest.questions)
         scored == calculateTimeSpent(
                     calculateScore(participation, contest.questions, now))
     IN call' = [call EXCEPT ![r] =
          IF idx = 0 THEN Finish(c, "NotJoined")
          ELSE IF IsCompleted(participation) THEN Finish(c, "AlreadyCompleted")
          ELSE IF HasEnded(contest, now) THEN Finish(c, "Ended")
          ELSE IF Len(c.answers) # Len(contest.questions)
          THEN Finish(c, "AnswerCountMismatch")
          \* a second res.json throws ERR_HTTP_HEADERS_SENT out of the loop
          ELSE IF sends >= 2
          THEN [Finish(c, "InvalidAnswer") EXCEPT !.err = "ERR_HTTP_HEADERS_SENT"]
          \* one response was sent and the handler carries on
          ELSE IF sends = 1
          THEN [c EXCEPT !.result = "InvalidAnswer", !.local = scored,
                         !.pc = "s_save"]
          ELSE [c EXCEPT !.local = scored, !.pc = "s_save"]]
  /\ UNCHANGED <<contests, participations, now>>

\* participation.save(), then the success response
submitContest_save(r) ==
  /\ call[r].op = "submit" /\ call[r].pc = "s_save"
  /\ LET c == call[r]
     IN /\ participations' = [participations EXCEPT ![c.idx] =
              SaveModified(participations[c.idx], c.doc, c.local)]
        /\ call' = [call EXCEPT ![r] =
              IF c.result = "none"
              THEN [Finish(c, "Success") EXCEPT
                      !.wrote = @ \cup {"participation"}]
              ELSE [Finish(c, c.result) EXCEPT
                      !.err = "ERR_HTTP_HEADERS_SENT",
                      !.wrote = @ \cup {"participation"}]]
  /\ UNCHANGED <<contests, now>>

(* --------------------------- durable store ----------------------------- *)
\* the store operation a call is waiting for fails: the catch block answers
\* "Internal Server Error" (throwing in turn if a response was already sent)
StoreFailure(r) ==
  /\ call[r].pc \in {"j_findOne", "j_create", "j_save", "s_findOne", "s_save"}
  /\ call' = [call EXCEPT ![r] =
        IF call[r].result = "none"
        THEN [Finish(call[r], "InternalError") EXCEPT !.err = "StoreUnavailable"]
        ELSE [Finish(call[r], call[r].result) EXCEPT !.err = "StoreUnavailable"]]
  /\ UNCHANGED <<contests, participations, now>>

(* ------------------------------ admin ---------------------------------- *)
\* changeStatus: the only writer of contest.status
changeStatus(cid, status) ==
  /\ status \in {"UPCOMING", "ONGOING", "ENDED"}
  /\ cid \in DOMAIN contests
  /\ contests' = [contests EXCEPT ![cid].status = status]
  /\ UNCHANGED <<participations, now, call>>

(* ------------------------------ clock ---------------------------------- *)
Tick ==
  /\ now < MaxTicks * TickMillis
  /\ now' = now + TickMillis
  /\ UNCHANGED <<contests, participations, call>>

NextReliable ==
  \/ \E r \in Calls, u \in Users, cid \in ContestIds : joinContest_findById(r, u, cid)
  \/ \E r \in Calls : joinContest_findOne(r)
  \/ \E r \in Calls : joinContest_create(r)
  \/ \E r \in Calls : joinContest_save(r)
  \/ \E r \in Calls, u \in Users, cid \in ContestIds, answers \in AnswerInputs :
        submitContest_findById(r, u, cid, answers)
  \/ \E r \in Calls : submitContest_findOne(r)
  \/ \E r \in Calls : submitContest_save(r)
  \/ \E cid \in ContestIds, status \in {"UPCOMING", "ONGOING", "ENDED", "PAUSED"} :
        changeStatus(cid, status)
  \/ Tick

\* the store never fails
SpecReliable == Init /\ [][NextReliable]_vars

Next ==
  \/ NextReliable
  \/ \E r \in Calls : StoreFailure(r)

\* the store may fail any operation a call is waiting for
Spec == Init /\ [][Next]_vars

(* ------------------------------ grader --------------------------------- *)
TrueFalseQ == [type |-> "true-false", options |-> <<FALSE, TRUE>>, points |-> 1]

\* all arrays of at most n option indices
RECURSIVE Selections(_)
Selections(n) ==
  IF n = 0 THEN { <<>> }
  ELSE Selections(n - 1) \cup
       { Append(s, i) : s \in { x \in Selections(n - 1) : Len(x) = n - 1 },
                        i \in 0..(MaxOptions - 1) }

\* contest.questions handed to calculateScore: one or two questions
GradeQuestionLists ==
  LET Q == {SingleQ, MultiQ, TrueFalseQ}
  IN { <<q>> : q \in Q } \cup { <<q1, q2>> : q1 \in Q, q2 \in Q }

\* participation.answers before grading
GradeAnswers ==
  LET A == { Ans(qi, sel) : qi \in 0..1, sel \in Selections(MaxSelected) }
  IN UNION { [1..n -> A] : n \in 1..MaxAnswers }

\* a joined participation whose answers array has been filled in, and the
\* question list of its contest
InitGrade ==
  /\ call = [r \in Calls |-> IdleCall]
  /\ now = TickMillis
  /\ \E qs \in GradeQuestionLists, answers \in GradeAnswers :
        /\ contests = [c \in ContestIds |-> JoinedContest("NORMAL", 1, qs)]
        /\ participations =
              << [NewParticipation(1, 1, TickMillis, Len(qs))
                    EXCEPT !.answers = answers] >>

\* participation.calculateScore(contest.questions)
Grade ==
  /\ ~participations[1].isCompleted
  /\ participations' = [participations EXCEPT ![1] =
        calculateScore(@, contests[participations[1].contestId].questions, now)]
  /\ UNCHANGED <<contests, now, call>>

SpecGrade == InitGrade /\ [][Grade]_vars

(* ---------------------------- leaderboard ------------------------------ *)
\* identities owning the participation records of the leaderboard store
BoardUsers == 1..MaxRows
\* .limit(100)
LeaderboardLimit == 100

\* a completed participation as calculateScore leaves it
CompletedParticipation(u, cid, score, submittedAt) ==
  [NewParticipation(u, cid, TickMillis, 2) EXCEPT
     !.isCompleted = TRUE, !.score = score, !.submittedAt = submittedAt]

\* records the store may hold for identity u: joined only, or completed
\* with a score and a submission time, in the contest of the request or in
\* another contest
BoardRows(u) ==
  { NewParticipation(u, 1, TickMillis, 2) }
    \cup { CompletedParticipation(u, 1, score, t) :
             score \in {0, SingleQ.points}, t \in {TickMillis, 2 * TickMillis} }
    \cup { CompletedParticipation(u, 2, SingleQ.points, TickMillis) }

\* Participation collections of at most MaxRows records, one per identity
BoardStores ==
  LET All == UNION { BoardRows(u) : u \in BoardUsers }
  IN UNION { { st \in [1..n -> All] :
                 \A i, j \in 1..n : i < j => st[i].userId < st[j].userId }
             : n \in 0..MaxRows }

InitBoard ==
  /\ call = [r \in Calls |-> IdleCall]
  /\ now = 2 * TickMillis
  /\ participations \in BoardStores
  /\ \E type \in {"NORMAL", "VIP"} :
        contests = [c \in {1, 2} |-> JoinedContest(type, MaxRows, <<SingleQ, MultiQ>>)]

\* .sort() ascending on both keys
SortsBefore_Ascending(a, b) ==
  \/ a.score < b.score
  \/ a.score = b.score /\ a.submittedAt < b.submittedAt

\* .sort({ score: -1, submittedAt: 1 }): a must come before b
SortsBefore(a, b) ==
  \/ a.score > b.score
  \/ a.score = b.score /\ a.submittedAt < b.submittedAt

\* results of Participation.find({contestId, isCompleted: true}).sort(...)
\* .limit(100): the matching record ids in any order the sort allows
\* (records equal on both keys come in an order the store chooses)
FindCompletedSorted(cid) ==
  LET M == { k \in 1..Len(participations) :
               /\ participations[k].contestId = cid
               /\ participations[k].isCompleted }
      n == Cardinality(M)
      m == IF n < LeaderboardLimit THEN n ELSE LeaderboardLimit
  IN { SubSeq(o, 1, m) :
         o \in { f \in [1..n -> M] :
                  /\ \A i, j \in 1..n : i # j => f[i] # f[j]
                  /\ \A i, j \in 1..n : i < j =>
                        ~SortsBefore(participations[f[j]], participations[f[i]]) } }

\* the selected fields of record k, with participant.rank = index + 1
RankedEntry(k, index) ==
  [id |-> k, userId |-> participations[k].userId,
   score |-> participations[k].score,
   submittedAt |-> participations[k].submittedAt, rank |-> index + 1]

\* Participation.findOne({userId, contestId, isCompleted: true})
FindOneCompleted(u, cid) ==
  LET S == {i \in 1..Len(participations) :
              /\ participations[i].userId = u
              /\ participations[i].contestId = cid
              /\ participations[i].isCompleted}
  IN IF S = {} THEN 0 ELSE CHOOSE i \in S : \A j \in S : i <= j

\* the $or filter with $lte on submittedAt
CountAhead_OrEqual(cid, userParticipation) ==
  Cardinality({ k \in 1..Len(participations) :
     /\ participations[k].contestId = cid
     /\ participations[k].isCompleted
     /\ \/ participations[k].score > userParticipation.score
        \/ /\ participations[k].score = userParticipation.score
           /\ participations[k].submittedAt <= userParticipation.submittedAt })

\* Participation.countDocuments({contestId, isCompleted: true, $or: [...]})
CountAhead(cid, userParticipation) ==
  Cardinality({ k \in 1..Len(participations) :
     /\ participations[k].contestId = cid
     /\ participations[k].isCompleted
     /\ \/ participations[k].score > userParticipation.score
        \/ /\ participations[k].score = userParticipation.score
           /\ participations[k].submittedAt < userParticipation.submittedAt })

\* Contest.findById, then the not-found check and the VIP gate
contestLeaderboard_findById(r, u, cid) ==
  /\ FreeSlot(r)
  /\ LET c == [IdleCall EXCEPT !.op = "leaderboard", !.user = u, !.cid = cid]
     IN call' = [call EXCEPT ![r] =
          IF cid \notin DOMAIN contests THEN Finish(c, "ContestNotFound")
          ELSE IF VipOnly(contests[cid], u) THEN Finish(c, "AccessDenied")
          ELSE [c EXCEPT !.pc = "l_find"]]
  /\ UNCHANGED <<contests, participations, now>>

\* Participation.find(...).sort(...).limit(100), then the rank loop
contestLeaderboard_find(r) ==
  /\ call[r].op = "leaderboard" /\ call[r].pc = "l_find"
  /\ \E found \in FindCompletedSorted(call[r].cid) :
       LET c == [call[r] EXCEPT !.leaderboard =
                   [i \in 1..Len(found) |-> RankedEntry(found[i], i - 1)]]
       IN call' = [call EXCEPT ![r] =
            IF c.user = Anonymous THEN Finish(c, "Success")
            ELSE [c EXCEPT !.pc = "l_findOne"]]
  /\ UNCHANGED <<contests, participations, now>>

\* Participation.findOne for the caller's completed participation
contestLeaderboard_findOne(r) ==
  /\ call[r].op = "leaderboard" /\ call[r].pc = "l_findOne"
  /\ LET c == call[r]
         idx == FindOneCompleted(c.user, c.cid)
     IN call' = [call EXCEPT ![r] =
          IF idx = 0 THEN Finish(c, "Success")
          ELSE [c EXCEPT !.doc = participations[idx], !.pc = "l_count"]]
  /\ UNCHANGED <<contests, participations, now>>

\* Participation.countDocuments, userRank = userRankResult + 1, res.json
contestLeaderboard_countDocuments(r) ==
  /\ call[r].op = "leaderboard" /\ call[r].pc = "l_count"
  /\ LET c == call[r]
     IN call' = [call EXCEPT ![r] =
          Finish([c EXCEPT !.userRank = CountAhead(c.cid, c.doc) + 1], "Success")]
  /\ UNCHANGED <<contests, participations, now>>

NextBoard ==
  \/ \E r \in Calls, u \in BoardUsers \cup {Anonymous}, cid \in ContestIds :
        contestLeaderboard_findById(r, u, cid)
  \/ \E r \in Calls : contestLeaderboard_find(r)
  \/ \E r \in Calls : contestLeaderboard_findOne(r)
  \/ \E r \in Calls : contestLeaderboard_countDocuments(r)

SpecBoard == InitBoard /\ [][NextBoard]_vars

(* --------------------------- getLeaderboard ---------------------------- *)
\* results of Participation.find({contestId}).sort({score: -1,
\* submittedAt: 1}): every record of the contest, in any order the sort
\* allows; a null submittedAt sorts before every date
FindAllSorted(cid) ==
  LET M == { k \in 1..Len(participations) :
               participations[k].contestId = cid }
      n == Cardinality(M)
  IN { f \in [1..n -> M] :
         /\ \A i, j \in 1..n : i # j => f[i] # f[j]
         /\ \A i, j \in 1..n : i < j =>
               ~SortsBefore(participations[f[j]], participations[f[i]]) }

\* Contest.findById and the not-found check of the administrator's route
getLeaderboard_findById(r, cid) ==
  /\ FreeSlot(r)
  /\ LET c == [IdleCall EXCEPT !.op = "getLeaderboard", !.cid = cid]
     IN call' = [call EXCEPT ![r] =
          IF cid \notin DOMAIN contests THEN Finish(c, "ContestNotFound")
          ELSE [c EXCEPT !.pc = "g_find"]]
  /\ UNCHANGED <<contests, participations, now>>

\* Participation.find(...).sort(...), the rank loop and the response
getLeaderboard_find(r) ==
  /\ call[r].op = "getLeaderboard" /\ call[r].pc = "g_find"
  /\ \E found \in FindAllSorted(call[r].cid) :
       call' = [call EXCEPT ![r] =
          Finish([call[r] EXCEPT !.leaderboard =
                    [i \in 1..Len(found) |-> RankedEntry(found[i], i - 1)]],
                 "Success")]
  /\ UNCHANGED <<contests, participations, now>>

NextAdminBoard ==
  \/ \E r \in Calls, cid \in ContestIds \cup {2, 3} : getLeaderboard_findById(r, cid)
  \/ \E r \in Calls : getLeaderboard_find(r)

SpecAdminBoard == InitBoard /\ [][NextAdminBoard]_vars

(* ------------------------ contest administration ----------------------- *)
\* keys of schemas.updateContest; validate() strips every other key
UpdateFields ==
  {"name", "description", "type", "startTime", "endTime", "prizeInfo",
   "maxParticipants"}

\* stripUnknown: true
StripUnknown(body) == [f \in DOMAIN body \cap UpdateFields |-> body[f]]

\* schemas.updateContest on the stripped body at time t: at least one key,
\* startTime greater than now, endTime greater than the startTime of the
\* same body (a reference to a missing startTime fails), maxParticipants
\* in 1..10000, type NORMAL or VIP
UpdateValid(v, t) ==
  /\ DOMAIN v # {}
  /\ "startTime" \in DOMAIN v => v.startTime > t
  /\ "endTime" \in DOMAIN v =>
        "startTime" \in DOMAIN v /\ v.endTime > v.startTime
  /\ "maxParticipants" \in DOMAIN v => v.maxParticipants \in 1..10000
  /\ "type" \in DOMAIN v => v.type \in {"NORMAL", "VIP"}

\* request bodies of updateContest, as sent
UpdateBodies ==
  { [description |-> "description1"],
    [prizeInfo |-> "prizeInfo1", maxParticipants |-> 1],
    [name |-> "name1"],
    [name |-> "name1", description |-> "description1"],
    [type |-> "VIP", startTime |-> 2 * TickMillis, endTime |-> 3 * TickMillis],
    [startTime |-> 2 * TickMillis],
    [status |-> "ENDED", questions |-> <<>>],
    [status |-> "ENDED", prizeInfo |-> "prizeInfo1"],
    [endTime |-> 3 * TickMillis] }

\* a contest that started may change every key of the body
AllowedUpdates_All == UpdateFields

\* const allowedUpdates = ["description", "prizeInfo", "maxParticipants"]
AllowedUpdates == {"description", "prizeInfo", "maxParticipants"}

\* Object.assign(contest, updates)
Assign(contest, updates) ==
  [f \in DOMAIN contest |->
     IF f \in DOMAIN updates THEN updates[f] ELSE contest[f]]

\* the start instant itself counted as not started
HasStarted_Exclusive(contest, t) == t > contest.startTime

\* if (now >= contest.startTime)
HasStarted(contest, t) == t >= contest.startTime

\* request bodies of addQuestion and editQuestion (all pass
\* schemas.addQuestion: two to ten options, a known type, points 1..10)
QuestionInputs ==
  { TrueFalseQ,
    [type |-> "true-false", options |-> <<TRUE, FALSE, FALSE>>, points |-> 1],
    [type |-> "true-false", options |-> <<TRUE, TRUE>>, points |-> 1],
    [type |-> "single-select", options |-> <<TRUE, TRUE>>, points |-> 1],
    [type |-> "multi-select", options |-> <<FALSE, FALSE>>, points |-> 1] }

\* req.params.questionIndex
QuestionIndexInputs == 0..2

NumCorrect(question) ==
  Cardinality({i \in 1..Len(question.options) : question.options[i]})

\* the three checks of addQuestion on the request body
AddQuestionValid(question) ==
  /\ ~(question.type = "true-false" /\ Len(question.options) # 2)
  /\ ~(question.type = "single-select" /\ NumCorrect(question) # 1)
  /\ NumCorrect(question) # 0

\* a save that runs no hook on the questions
PreSaveValid_Off(questions) == TRUE

\* contestSchema.pre('save'): the first next(error) fails the save
PreSaveValid(questions) ==
  \A i \in 1..Len(questions) :
     LET question == questions[i]
     IN /\ NumCorrect(question) # 0
        /\ ~(question.type = "single-select" /\ NumCorrect(question) > 1)
        /\ question.type = "true-false" =>
              Len(question.options) = 2 /\ NumCorrect(question) = 1

\* questions.splice(questionIndex, 1)
Splice(questions, questionIndex) ==
  [i \in 1..(Len(questions) - 1) |->
     IF i <= questionIndex THEN questions[i] ELSE questions[i + 1]]

\* the validators of contestSchema that can fail on a document the
\* handlers build: endTime after startTime, maxParticipants at least 1.
\* save() and create() run them on every path of the document, the
\* unmodified ones included.
SchemaValid(contest) ==
  /\ contest.endTime > contest.startTime
  /\ contest.maxParticipants >= 1

\* await contest.save() of an administrator's handler, then its response
ContestSave(r) ==
  LET c == call[r]
  IN IF c.cid \notin DOMAIN contests
     THEN /\ call' = [call EXCEPT ![r] =
                [Finish(c, "InternalError") EXCEPT !.err = "DocumentNotFound"]]
          /\ UNCHANGED contests
     ELSE IF ~SchemaValid(c.edit)
     THEN /\ call' = [call EXCEPT ![r] =
                [Finish(c, "InternalError") EXCEPT !.err = "ValidationError"]]
          /\ UNCHANGED contests
     ELSE IF ~PreSaveValid(c.edit.questions)
     THEN /\ call' = [call EXCEPT ![r] =
                [Finish(c, "InternalError") EXCEPT !.err = "PreSaveError"]]
          /\ UNCHANGED contests
     ELSE /\ contests' = [contests EXCEPT ![c.cid] =
                SaveModified(contests[c.cid], c.contest, c.edit)]
          /\ call' = [call EXCEPT ![r] =
                [Finish(c, "Success") EXCEPT !.wrote = @ \cup {"contest"}]]

\* validateUpdateContest, Contest.findById, the started check and
\* Object.assign
updateContest_findById(r, cid, body) ==
  /\ FreeSlot(r)
  /\ LET c == [IdleCall EXCEPT !.op = "updateContest", !.cid = cid,
                               !.body = body, !.now = now]
         v == StripUnknown(body)
     IN call' = [call EXCEPT ![r] =
          IF ~UpdateValid(v, now) THEN Finish(c, "ValidationFailed")
          ELSE IF cid \notin DOMAIN contests THEN Finish(c, "ContestNotFound")
          ELSE LET contest == contests[cid]
                   updates == [f \in DOMAIN v \cap AllowedUpdates |-> v[f]]
               IN IF HasStarted(contest, now)
                  THEN IF DOMAIN updates = {} THEN Finish(c, "AlreadyStarted")
                       ELSE [c EXCEPT !.contest = contest, !.pc = "u_save",
                                      !.edit = Assign(contest, updates)]
                  ELSE [c EXCEPT !.contest = contest, !.pc = "u_save",
                                 !.edit = Assign(contest, v)]]
  /\ UNCHANGED <<contests, participations, now>>

updateContest_save(r) ==
  /\ call[r].op = "updateContest" /\ call[r].pc = "u_save"
  /\ ContestSave(r)
  /\ UNCHANGED <<participations, now>>

\* Contest.findById, the started check, the checks on the question, push
addQuestion_findById(r, cid, question) ==
  /\ FreeSlot(r)
  /\ LET c == [IdleCall EXCEPT !.op = "addQuestion", !.cid = cid, !.now = now]
     IN call' = [call EXCEPT ![r] =
          IF cid \notin DOMAIN contests THEN Finish(c, "ContestNotFound")
          ELSE LET contest == contests[cid]
               IN IF HasStarted(contest, now) THEN Finish(c, "AlreadyStarted")
                  ELSE IF ~AddQuestionValid(question)
                  THEN Finish(c, "InvalidQuestion")
                  ELSE [c EXCEPT !.contest = contest, !.pc = "q_save",
                          !.edit = [contest EXCEPT
                                      !.questions = Append(@, question)]]]
  /\ UNCHANGED <<contests, participations, now>>

addQuestion_save(r) ==
  /\ call[r].op = "addQuestion" /\ call[r].pc = "q_save"
  /\ ContestSave(r)
  /\ UNCHANGED <<participations, now>>

\* Contest.findById, the index check, the started check, the assignment
editQuestion_findById(r, cid, questionIndex, question) ==
  /\ FreeSlot(r)
  /\ LET c == [IdleCall EXCEPT !.op = "editQuestion", !.cid = cid, !.now = now]
     IN call' = [call EXCEPT ![r] =
          IF cid \notin DOMAIN contests THEN Finish(c, "ContestNotFound")
          ELSE LET contest == contests[cid]
               IN IF questionIndex < 0 \/ questionIndex >= Len(contest.questions)
                  THEN Finish(c, "InvalidIndex")
                  ELSE IF HasStarted(contest, now) THEN Finish(c, "AlreadyStarted")
                  ELSE [c EXCEPT !.contest = contest, !.pc = "q_save",
                          !.edit = [contest EXCEPT
                                      !.questions[questionIndex + 1] = question]]]
  /\ UNCHANGED <<contests, participations, now>>

editQuestion_save(r) ==
  /\ call[r].op = "editQuestion" /\ call[r].pc = "q_save"
  /\ ContestSave(r)
  /\ UNCHANGED <<participations, now>>

\* Contest.findById, the index check, the started check, splice
deleteQuestion_findById(r, cid, questionIndex) ==
  /\ FreeSlot(r)
  /\ LET c == [IdleCall EXCEPT !.op = "deleteQuestion", !.cid = cid, !.now = now]
     IN call' = [call EXCEPT ![r] =
          IF cid \notin DOMAIN contests THEN Finish(c, "ContestNotFound")
          ELSE LET contest == contests[cid]
               IN IF questionIndex < 0 \/ questionIndex >= Len(contest.questions)
                  THEN Finish(c, "InvalidIndex")
                  ELSE IF HasStarted(contest, now) THEN Finish(c, "AlreadyStarted")
                  ELSE [c EXCEPT !.contest = contest, !.pc = "q_save",
                          !.edit = [contest EXCEPT
                                      !.questions = Splice(@, questionIndex)]]]
  /\ UNCHANGED <<contests, participations, now>>

deleteQuestion_save(r) ==
  /\ call[r].op = "deleteQuestion" /\ call[r].pc = "q_save"
  /\ ContestSave(r)
  /\ UNCHANGED <<participations, now>>

(* ---------------------------- deleteContest ---------------------------- *)
\* Participation.countDocuments({ contestId })
CountParticipations(cid) ==
  Cardinality({k \in 1..Len(participations) : participations[k].contestId = cid})

\* Contest.findById and the not-found check
deleteContest_findById(r, cid) ==
  /\ FreeSlot(r)
  /\ LET c == [IdleCall EXCEPT !.op = "deleteContest", !.cid = cid]
     IN call' = [call EXCEPT ![r] =
          IF cid \notin DOMAIN contests THEN Finish(c, "ContestNotFound")
          ELSE [c EXCEPT !.pc = "d_count"]]
  /\ UNCHANGED <<contests, participations, now>>

\* Participation.countDocuments and the participants check
deleteContest_countDocuments(r) ==
  /\ call[r].op = "deleteContest" /\ call[r].pc = "d_count"
  /\ call' = [call EXCEPT ![r] =
        IF CountParticipations(call[r].cid) > 0
        THEN Finish(call[r], "HasParticipants")
        ELSE [call[r] EXCEPT !.pc = "d_delete"]]
  /\ UNCHANGED <<contests, participations, now>>

\* Contest.findByIdAndDelete and the success response
deleteContest_findByIdAndDelete(r) ==
  /\ call[r].op = "deleteContest" /\ call[r].pc = "d_delete"
  /\ contests' = [c \in DOMAIN contests \ {call[r].cid} |-> contests[c]]
  /\ call' = [call EXCEPT ![r] =
        [Finish(call[r], "Success") EXCEPT !.wrote = @ \cup {"contest"}]]
  /\ UNCHANGED <<participations, now>>

(* ---------------------------- changeStatus ----------------------------- *)
\* a list that also accepts PAUSED
ValidStatuses_WithPaused == {"UPCOMING", "ONGOING", "ENDED", "PAUSED"}

\* const validStatuses = ["UPCOMING", "ONGOING", "ENDED"]
ValidStatuses == {"UPCOMING", "ONGOING", "ENDED"}

\* req.body.status values an administrator may send
StatusInputs == {"UPCOMING", "ONGOING", "ENDED", "PAUSED"}

\* the validStatuses check, Contest.findById, contest.status = status
changeStatus_findById(r, cid, status) ==
  /\ FreeSlot(r)
  /\ LET c == [IdleCall EXCEPT !.op = "changeStatus", !.cid = cid,
                               !.body = [status |-> status]]
     IN call' = [call EXCEPT ![r] =
          \* the refused value stays on record with the response
          IF status \notin ValidStatuses
          THEN [Finish(c, "InvalidState") EXCEPT !.body = c.body]
          ELSE IF cid \notin DOMAIN contests THEN Finish(c, "ContestNotFound")
          ELSE [c EXCEPT !.contest = contests[cid], !.pc = "c_save",
                         !.edit = [contests[cid] EXCEPT !.status = status]]]
  /\ UNCHANGED <<contests, participations, now>>

changeStatus_save(r) ==
  /\ call[r].op = "changeStatus" /\ call[r].pc = "c_save"
  /\ ContestSave(r)
  /\ UNCHANGED <<participations, now>>

(* ------------------------------ catalog -------------------------------- *)
\* a req.query parameter: absent, a string, or the object the query parser
\* builds from `name[$ne]=value`
QueryAbsent == [kind |-> "absent", val |-> ""]
QueryString(v) == [kind |-> "string", val |-> v]
QueryNe(v) == [kind |-> "ne", val |-> v]

\* req.query.status and req.query.type as a caller may send them
StatusQueries == {QueryAbsent, QueryString("ONGOING")}
TypeQueries ==
  {QueryAbsent, QueryString("NORMAL"), QueryString("VIP"), QueryNe("NORMAL")}

\* a filter that hands the requested type to every caller
TypeFilter_AsRequested(u, type) == type

\* filter.type as the role branches of allContest set it; QueryAbsent when
\* the filter gets no type key
TypeFilter(u, type) ==
  IF type.kind # "absent"
  THEN IF u # Anonymous /\ Role(u) \in {"admin", "vip"} THEN type
       ELSE IF type = QueryString("VIP") THEN QueryString("NORMAL") ELSE type
  ELSE IF u = Anonymous \/ Role(u) = "normal" THEN QueryString("NORMAL")
       ELSE QueryAbsent

\* one key of a find filter against a stored value
Matches(value, cond) ==
  \/ cond.kind = "absent"
  \/ cond.kind = "string" /\ value = cond.val
  \/ cond.kind = "ne" /\ value # cond.val

\* ids of the contests a filter { isActive: true, status, type } selects
Filtered(status, type) ==
  { k \in DOMAIN contests :
      /\ contests[k].isActive
      /\ Matches(contests[k].status, status)
      /\ Matches(contests[k].type, type) }

\* const { page = 1, limit = 10 } = req.query
PageLimit == 10

\* Contest.find(filter).sort({ startTime: 1 }).skip(0).limit(10)
FindContestsSorted(status, type) ==
  LET M == Filtered(status, type)
      n == Cardinality(M)
      m == IF n < PageLimit THEN n ELSE PageLimit
  IN { SubSeq(o, 1, m) :
         o \in { f \in [1..n -> M] :
                  /\ \A i, j \in 1..n : i # j => f[i] # f[j]
                  /\ \A i, j \in 1..n : i < j =>
                        contests[f[i]].startTime <= contests[f[j]].startTime } }

\* participationStatus of a contest the caller has no participation in
NotJoinedStatus ==
  [hasJoined |-> FALSE, isCompleted |-> FALSE, score |-> -1, rank |-> NullRank]

\* participationMap[contestId] of a participation (score null is -1;
\* participation.rank is the stored rank, which nothing ever sets)
JoinedStatus(participation) ==
  [hasJoined |-> TRUE, isCompleted |-> participation.isCompleted,
   score |-> participation.score, rank |-> NullRank]

\* a second contest of the catalog: VIP, active, with a later window
VipContest ==
  [NewContest("VIP", 1, <<SingleQ, MultiQ>>) EXCEPT
     !.startTime = 2 * TickMillis, !.endTime = 3 * TickMillis]

\* two contests, the first of either type, active or not; the normal
\* identity 1 or the vip identity 2 may have joined or completed the first
InitCatalog ==
  /\ call = [r \in Calls |-> IdleCall]
  /\ now = TickMillis
  /\ \E type \in {"NORMAL", "VIP"}, active \in BOOLEAN :
        /\ contests = [c \in {1, 2} |->
              IF c = 1
              THEN [JoinedContest(type, MaxCap, <<SingleQ, MultiQ>>) EXCEPT
                      !.isActive = active]
              ELSE VipContest]
        /\ participations \in
              { <<>>, << NewParticipation(2, 1, TickMillis, 2) >>,
                << CompletedParticipation(2, 1, SingleQ.points, TickMillis) >> }
              \cup (IF type = "NORMAL"
                    THEN { << NewParticipation(1, 1, TickMillis, 2) >>,
                           << CompletedParticipation(1, 1, 0, TickMillis) >> }
                    ELSE {})

\* the filter, Contest.find(filter)...limit()
allContest_find(r, u, status, type) ==
  /\ FreeSlot(r)
  /\ \E found \in FindContestsSorted(status, TypeFilter(u, type)) :
       call' = [call EXCEPT ![r] =
          [IdleCall EXCEPT !.op = "allContest", !.user = u, !.pc = "a_count",
             !.body = [status |-> status, type |-> type],
             !.listing = [i \in 1..Len(found) |-> [id |-> found[i]]]]]
  /\ UNCHANGED <<contests, participations, now>>

\* Contest.countDocuments(filter); a guest gets the response here
allContest_countDocuments(r) ==
  /\ call[r].op = "allContest" /\ call[r].pc = "a_count"
  /\ LET c == [call[r] EXCEPT !.total =
                 Cardinality(Filtered(call[r].body.status,
                                      TypeFilter(call[r].user, call[r].body.type)))]
     IN call' = [call EXCEPT ![r] =
          IF c.user = Anonymous
          THEN [Finish(c, "Success") EXCEPT !.body = c.body]
          ELSE [c EXCEPT !.pc = "a_participations"]]
  /\ UNCHANGED <<contests, participations, now>>

\* res.json serialises a contest document through toJSON(): the paths of
\* contestSchema (here the id that stands for them); a property assigned to
\* the document object under a name the schema does not have is left out
ContestToJSON(document) == [id |-> document.id]

\* Participation.find({ userId, contestId: { $in } }), the participation
\* map, the assignment of contest.participationStatus, the response
allContest_findParticipations(r) ==
  /\ call[r].op = "allContest" /\ call[r].pc = "a_participations"
  /\ LET c == call[r]
         annotate(e) ==
           LET idx == FindOne(c.user, e.id)
           IN [id |-> e.id,
               participationStatus |->
                 IF idx = 0 THEN NotJoinedStatus
                 ELSE JoinedStatus(participations[idx])]
         annotated == [i \in 1..Len(c.listing) |-> annotate(c.listing[i])]
     IN call' = [call EXCEPT ![r] =
          [Finish([c EXCEPT !.listing =
                     [i \in 1..Len(annotated) |-> ContestToJSON(annotated[i])]],
                  "Success") EXCEPT !.body = c.body]]
  /\ UNCHANGED <<contests, participations, now>>

NextCatalog ==
  \/ \E r \in Calls, u \in Users \cup {Anonymous}, status \in StatusQueries,
         type \in TypeQueries : allContest_find(r, u, status, type)
  \/ \E r \in Calls : allContest_countDocuments(r)
  \/ \E r \in Calls : allContest_findParticipations(r)

SpecCatalog == InitCatalog /\ [][NextCatalog]_vars

(* ----------------------------- contestById ----------------------------- *)
\* contestData that always carries the questions
ContestData_WithQuestions(contest, idx, t) ==
  [hasQuestions |-> TRUE,
   hasJoined |-> idx # 0,
   canJoin |-> /\ idx = 0
               /\ t >= contest.startTime /\ t <= contest.endTime
               /\ contest.status = "ONGOING"]

\* contestData: whether it carries the questions, and its participation
\* part (idx is the caller's participation, 0 if none)
ContestData(contest, idx, t) ==
  [hasQuestions |-> idx # 0 \/ t > contest.endTime,
   hasJoined |-> idx # 0,
   canJoin |-> /\ idx = 0
               /\ t >= contest.startTime /\ t <= contest.endTime
               /\ contest.status = "ONGOING"]

\* Contest.findById, the not-found / inactive / VIP checks; a guest gets
\* the response without a participation lookup
contestById_findById(r, u, cid) ==
  /\ FreeSlot(r)
  /\ LET c == [IdleCall EXCEPT !.op = "contestById", !.user = u, !.cid = cid]
     IN call' = [call EXCEPT ![r] =
          IF cid \notin DOMAIN contests THEN Finish(c, "ContestNotFound")
          ELSE IF ~contests[cid].isActive THEN Finish(c, "ContestNotActive")
          ELSE IF VipOnly(contests[cid], u) THEN Finish(c, "AccessDenied")
          ELSE IF u = Anonymous
          THEN Finish([c EXCEPT !.detail = ContestData(contests[cid], 0, now)],
                      "Success")
          ELSE [c EXCEPT !.contest = contests[cid], !.pc = "v_findOne"]]
  /\ UNCHANGED <<contests, participations, now>>

\* Participation.findOne, contestData, the response
contestById_findOne(r) ==
  /\ call[r].op = "contestById" /\ call[r].pc = "v_findOne"
  /\ LET c == call[r]
     IN call' = [call EXCEPT ![r] =
          Finish([c EXCEPT !.detail =
                    ContestData(c.contest, FindOne(c.user, c.cid), now)],
                 "Success")]
  /\ UNCHANGED <<contests, participations, now>>

\* a contest of either type at its start time, opened or still UPCOMING,
\* which the vip identity 2 may have joined or completed
InitAccess ==
  /\ call = [r \in Calls |-> IdleCall]
  /\ now = TickMillis
  /\ \E type \in {"NORMAL", "VIP"}, cap \in 1..MaxCap,
        status \in {"UPCOMING", "ONGOING"} :
        \/ /\ contests = [c \in ContestIds |->
                  [NewContest(type, cap, <<SingleQ, MultiQ>>) EXCEPT
                     !.status = status]]
           /\ participations = <<>>
        \/ /\ contests = [c \in ContestIds |->
                  [JoinedContest(type, cap, <<SingleQ, MultiQ>>) EXCEPT
                     !.status = status]]
           /\ participations \in
                 { << NewParticipation(2, 1, TickMillis, 2) >>,
                   << CompletedParticipation(2, 1, 0, TickMillis) >> }

\* the three routes with a VIP gate, and the clock
NextAccess ==
  \/ \E r \in Calls, u \in Users, cid \in ContestIds : joinContest_findById(r, u, cid)
  \/ \E r \in Calls : joinContest_findOne(r)
  \/ \E r \in Calls : joinContest_create(r)
  \/ \E r \in Calls : joinContest_save(r)
  \/ \E r \in Calls, u \in Users \cup {Anonymous}, cid \in ContestIds :
        contestLeaderboard_findById(r, u, cid)
  \/ \E r \in Calls : contestLeaderboard_find(r)
  \/ \E r \in Calls : contestLeaderboard_findOne(r)
  \/ \E r \in Calls : contestLeaderboard_countDocuments(r)
  \/ \E r \in Calls, u \in Users \cup {Anonymous}, cid \in ContestIds :
        contestById_findById(r, u, cid)
  \/ \E r \in Calls : contestById_findOne(r)
  \/ Tick

(* ---------------------------- createContest ---------------------------- *)
\* ids of the contests of a store that createContest may extend
WindowContestIds == 1..MaxContests

\* request bodies of createContest: their startTime and endTime
CreateBodies ==
  { [startTime |-> TickMillis, endTime |-> 2 * TickMillis],
    [startTime |-> 2 * TickMillis, endTime |-> TickMillis] }

\* schemas.createContest on the times of a body at time t
CreateValid(body, t) ==
  /\ body.startTime > t
  /\ body.endTime > body.startTime

\* validateCreateContest, Contest.create, the 201 response
createContest(r, body) ==
  /\ FreeSlot(r)
  /\ Cardinality(DOMAIN contests) < MaxContests
  /\ LET id == Cardinality(DOMAIN contests) + 1
         c == [IdleCall EXCEPT !.op = "createContest", !.cid = id]
         contest == [NewContest("NORMAL", MaxCap, <<>>) EXCEPT
                       !.startTime = body.startTime, !.endTime = body.endTime]
     IN IF ~CreateValid(body, now)
        THEN /\ call' = [call EXCEPT ![r] = Finish(c, "ValidationFailed")]
             /\ UNCHANGED contests
        ELSE IF ~SchemaValid(contest)
        THEN /\ call' = [call EXCEPT ![r] =
                   [Finish(c, "InternalError") EXCEPT !.err = "ValidationError"]]
             /\ UNCHANGED contests
        ELSE /\ contests' = [k \in DOMAIN contests \cup {id} |->
                               IF k = id THEN contest ELSE contests[k]]
             /\ call' = [call EXCEPT ![r] =
                   [Finish(c, "Success") EXCEPT !.wrote = @ \cup {"contest"}]]
  /\ UNCHANGED <<participations, now>>

\* request bodies of updateContest that move the window of the contest
WindowBodies ==
  { [startTime |-> 2 * TickMillis],
    [startTime |-> 3 * TickMillis, endTime |-> 4 * TickMillis],
    [startTime |-> TickMillis, endTime |-> 3 * TickMillis],
    [endTime |-> 3 * TickMillis] }

\* createContest and updateContest on the window of a contest
NextWindow ==
  \/ \E r \in Calls, body \in CreateBodies : createContest(r, body)
  \/ \E r \in Calls, cid \in WindowContestIds, body \in WindowBodies :
        updateContest_findById(r, cid, body)
  \/ \E r \in Calls : updateContest_save(r)
  \/ Tick

(* --------------------------- Contest model ----------------------------- *)
\* a derivation that counts the end instant itself as ended
updateStatus_EndExclusive(contest, t) ==
  IF t < contest.startTime THEN "UPCOMING"
  ELSE IF t < contest.endTime THEN "ONGOING"
  ELSE "ENDED"

\* the status Contest.updateStatus() stores when it runs at time t
updateStatus(contest, t) ==
  IF t < contest.startTime THEN "UPCOMING"
  ELSE IF t >= contest.startTime /\ t <= contest.endTime THEN "ONGOING"
  ELSE "ENDED"

\* a contest as created, for each window of startTime < endTime within the
\* clock's range
InitDerive ==
  /\ call = [r \in Calls |-> IdleCall]
  /\ \E s \in 1..MaxTicks, e \in 1..(MaxTicks + 1) :
        /\ e > s
        /\ contests = [c \in ContestIds |->
              [NewContest("NORMAL", MaxCap, <<>>) EXCEPT
                 !.startTime = s * TickMillis, !.endTime = e * TickMillis]]
  /\ participations = <<>>
  /\ now = 0

\* contest.updateStatus() on the stored contest: the assignment and
\* this.save(); the call keeps the instant it ran at
Contest_updateStatus(r, cid) ==
  /\ FreeSlot(r)
  /\ cid \in DOMAIN contests
  /\ LET c == [IdleCall EXCEPT !.op = "updateStatus", !.cid = cid]
         status == updateStatus(contests[cid], now)
     IN /\ contests' = [contests EXCEPT ![cid].status = status]
        /\ call' = [call EXCEPT ![r] =
              [Finish(c, status) EXCEPT !.now = now]]
  /\ UNCHANGED <<participations, now>>

NextDerive ==
  \/ \E r \in Calls, cid \in ContestIds : Contest_updateStatus(r, cid)
  \/ Tick

SpecDerive == InitDerive /\ [][NextDerive]_vars

\* No administrator calls changeStatus. The status then stays as created,
\* no join gets past its status check and no submit finds a participation,
\* so the create and save steps of the two handlers never run.
NextNoOverride ==
  \/ \E r \in Calls, u \in Users, cid \in ContestIds : joinContest_findById(r, u, cid)
  \/ \E r \in Calls : joinContest_findOne(r)
  \/ \E r \in Calls, u \in Users, cid \in ContestIds, answers \in AnswerInputs :
        submitContest_findById(r, u, cid, answers)
  \/ \E r \in Calls : submitContest_findOne(r)
  \/ Tick

SpecNoOverride == InitFresh /\ [][NextNoOverride]_vars

\* the administrator's contest and question handlers and the clock
NextAdmin ==
  \/ \E r \in Calls, cid \in ContestIds, body \in UpdateBodies :
        updateContest_findById(r, cid, body)
  \/ \E r \in Calls : updateContest_save(r)
  \/ \E r \in Calls, cid \in ContestIds, question \in QuestionInputs :
        addQuestion_findById(r, cid, question)
  \/ \E r \in Calls : addQuestion_save(r)
  \/ \E r \in Calls, cid \in ContestIds, questionIndex \in QuestionIndexInputs,
         question \in QuestionInputs :
        editQuestion_findById(r, cid, questionIndex, question)
  \/ \E r \in Calls : editQuestion_save(r)
  \/ \E r \in Calls, cid \in ContestIds, questionIndex \in QuestionIndexInputs :
        deleteQuestion_findById(r, cid, questionIndex)
  \/ \E r \in Calls : deleteQuestion_save(r)
  \/ Tick

SpecAdmin == InitFresh /\ [][NextAdmin]_vars

\* joinContest next to the administrator's deleteContest and changeStatus
NextDelete ==
  \/ \E r \in Calls, u \in Users, cid \in ContestIds : joinContest_findById(r, u, cid)
  \/ \E r \in Calls : joinContest_findOne(r)
  \/ \E r \in Calls : joinContest_create(r)
  \/ \E r \in Calls : joinContest_save(r)
  \/ \E r \in Calls, cid \in ContestIds : deleteContest_findById(r, cid)
  \/ \E r \in Calls : deleteContest_countDocuments(r)
  \/ \E r \in Calls : deleteContest_findByIdAndDelete(r)
  \/ \E cid \in ContestIds, status \in {"UPCOMING", "ONGOING", "ENDED", "PAUSED"} :
        changeStatus(cid, status)
  \/ Tick

SpecDelete == Init /\ [][NextDelete]_vars

\* the administrator's changeStatus as a recorded request, and the clock
NextStatus ==
  \/ \E r \in Calls, cid \in ContestIds, status \in StatusInputs :
        changeStatus_findById(r, cid, status)
  \/ \E r \in Calls : changeStatus_save(r)
  \/ Tick

SpecStatus == Init /\ [][NextStatus]_vars

SpecAccess == InitAccess /\ [][NextAccess]_vars

SpecWindow == InitFresh /\ [][NextWindow]_vars

\* joinContest next to the administrator's addQuestion and deleteQuestion
NextQuestionCount ==
  \/ \E r \in Calls, u \in Users, cid \in ContestIds : joinContest_findById(r, u, cid)
  \/ \E r \in Calls : joinContest_findOne(r)
  \/ \E r \in Calls : joinContest_create(r)
  \/ \E r \in Calls : joinContest_save(r)
  \/ \E r \in Calls, cid \in ContestIds, question \in QuestionInputs :
        addQuestion_findById(r, cid, question)
  \/ \E r \in Calls : addQuestion_save(r)
  \/ \E r \in Calls, cid \in ContestIds, questionIndex \in QuestionIndexInputs :
        deleteQuestion_findById(r, cid, questionIndex)
  \/ \E r \in Calls : deleteQuestion_save(r)
  \/ \E cid \in ContestIds, status \in {"UPCOMING", "ONGOING", "ENDED"} :
        changeStatus(cid, status)
  \/ Tick

SpecQuestionCount == InitFresh /\ [][NextQuestionCount]_vars

\* user 1 joined at the start time, then changeStatus took the contest out
\* of ONGOING
InitOverride ==
  /\ call = [r \in Calls |-> IdleCall]
  /\ \E cap \in 1..MaxCap, qs \in QuestionLists,
        status \in {"UPCOMING", "ENDED"} :
        /\ contests = [c \in ContestIds |->
              [JoinedContest("NORMAL", cap, qs) EXCEPT !.status = status]]
        /\ participations =
              << NewParticipation(1, 1, TickMillis, Len(qs)) >>
  /\ now = TickMillis

\* The administrator keeps the status away from ONGOING. No join gets past
\* its status or timing check then, so its create and save steps never run.
NextOverride ==
  \/ \E r \in Calls, u \in Users, cid \in ContestIds : joinContest_findById(r, u, cid)
  \/ \E r \in Calls : joinContest_findOne(r)
  \/ \E r \in Calls, u \in Users, cid \in ContestIds, answers \in AnswerInputs :
        submitContest_findById(r, u, cid, answers)
  \/ \E r \in Calls : submitContest_findOne(r)
  \/ \E r \in Calls : submitContest_save(r)
  \/ \E cid \in ContestIds, status \in {"UPCOMING", "ENDED"} :
        changeStatus(cid, status)
  \/ Tick

SpecOverride == InitOverride /\ [][NextOverride]_vars

\* request bodies of updateContest that change maxParticipants
CapacityBodies == { [maxParticipants |-> n] : n \in 0..MaxCap }

\* joinContest and updateContest on the capacity of a contest
NextCapacity ==
  \/ \E r \in Calls, u \in Users, cid \in ContestIds : joinContest_findById(r, u, cid)
  \/ \E r \in Calls : joinContest_findOne(r)
  \/ \E r \in Calls : joinContest_create(r)
  \/ \E r \in Calls : joinContest_save(r)
  \/ \E r \in Calls, cid \in ContestIds, body \in CapacityBodies :
        updateContest_findById(r, cid, body)
  \/ \E r \in Calls : updateContest_save(r)
  \/ \E cid \in ContestIds, status \in {"UPCOMING", "ONGOING", "ENDED"} :
        changeStatus(cid, status)
  \/ Tick

SpecCapacity == Init /\ [][NextCapacity]_vars

(* ------------------------------ claims --------------------------------- *)
Done(r) == call[r].pc = "done"

Rows(cid) == {i \in 1..Len(participations) : participations[i].contestId = cid}

\* C1: the store never holds two Participation records for the same
\* (identity, contest) pair, whatever the interleaving of joinContest calls.
C1_OneParticipationPerPair ==
  \A i, j \in 1..Len(participations) :
     ( /\ participations[i].userId = participations[j].userId
       /\ participations[i].contestId = participations[j].contestId ) => i = j

\* two joins of one identity raced and the second insert was refused
C1_Witness ==
  \E r \in Calls : call[r].op = "join" /\ call[r].err = "E11000"

\* C2: the number of Participation records of a contest never exceeds the
\* contest's maxParticipants.
C2_RowsWithinCapacity ==
  \A cid \in DOMAIN contests :
     Cardinality(Rows(cid)) <= contests[cid].maxParticipants

\* C3: whenever no joinContest call is in progress, currentParticipants
\* equals the number of persisted Participation records of the contest.
C3_CounterEqualsRows ==
  (\A r \in Calls : call[r].op = "join" => Done(r))
     => \A cid \in DOMAIN contests :
           contests[cid].currentParticipants = Cardinality(Rows(cid))

\* C4: of the joinContest calls one identity issues for an open contest with
\* free capacity, one succeeds and every other one is answered AlreadyJoined
\* (a call answered NotStarted, AlreadyEnded, NotOngoing or Full did not
\* find the contest open with free capacity and is outside the claim).
C4_LoserGetsAlreadyJoined ==
  \A r1, r2 \in Calls :
     ( /\ r1 # r2
       /\ call[r1].op = "join" /\ call[r2].op = "join"
       /\ Done(r1) /\ Done(r2)
       /\ call[r1].user = call[r2].user /\ call[r1].cid = call[r2].cid
       /\ call[r1].result = "Success"
       /\ call[r2].result \notin {"NotStarted", "AlreadyEnded", "NotOngoing", "Full"} )
     => call[r2].result = "AlreadyJoined"

\* C5: joinContest calls by distinct identities succeed only as long as
\* there is a free slot: no more calls return success than the contest has
\* capacity, and a call is answered Full only when no slot is left.
C5_SuccessesWithinFreeSlots ==
  \A cid \in DOMAIN contests :
     LET joins == {r \in Calls : call[r].op = "join" /\ call[r].cid = cid /\ Done(r)}
     IN /\ Cardinality({r \in joins : call[r].result = "Success"})
              <= contests[cid].maxParticipants
        /\ \A r \in joins : call[r].result = "Full"
              => Cardinality(Rows(cid)) >= contests[cid].maxParticipants

\* C6: when submitContest returns success, the stored participation holds
\* the submitted answers, graded, and its score and tallies are those of
\* the submitted answers (the multi-select answer <<1, 0>> for the correct
\* set {0, 1} earning its points).
C6_SubmitStoresGradedAnswers ==
  [][ \A r \in Calls :
        ( /\ call[r].pc = "s_save"
          /\ call'[r].pc = "done"
          /\ call'[r].result = "Success" )
        => LET p == participations'[call[r].idx]
               qs == contests[call[r].cid].questions
               graded == GradeAll(call[r].answers, qs)
           IN /\ p.answers = graded
              /\ p.score = SumPoints(graded, qs)
              /\ p.correctAnswers = Count(graded, qs, TRUE)
              /\ p.wrongAnswers = Count(graded, qs, FALSE) ]_vars

\* C7: a submitContest call answered InvalidAnswer has written nothing to
\* the participation.
C7_InvalidAnswerWritesNothing ==
  \A r \in Calls :
     (call[r].op = "submit" /\ Done(r) /\ call[r].result = "InvalidAnswer")
        => call[r].wrote = {}

\* C8: a submitContest call that finds its participation completed is
\* answered AlreadyCompleted and writes nothing, so the stored score,
\* tallies, answers and submittedAt stay as the first submit left them.
C8_CompletedIsWriteOnce ==
  [][ \A r \in Calls :
        ( /\ call[r].pc = "s_findOne"
          /\ call'[r] # call[r]
          /\ FindOne(call[r].user, call[r].cid) # 0
          /\ participations[FindOne(call[r].user, call[r].cid)].isCompleted )
        => /\ call'[r].pc = "done"
           /\ call'[r].result = "AlreadyCompleted"
           /\ call'[r].wrote = {}
           /\ participations' = participations ]_vars

\* a submit was refused because the participation was already completed
C8_Witness ==
  \E r \in Calls : call[r].op = "submit" /\ call[r].result = "AlreadyCompleted"

\* C9: of the submitContest calls for one (identity, contest), at most one
\* returns success and at most one writes the graded fields.
C9_AtMostOneGrading ==
  \A r1, r2 \in Calls :
     ( /\ r1 # r2
       /\ call[r1].op = "submit" /\ call[r2].op = "submit"
       /\ call[r1].user = call[r2].user /\ call[r1].cid = call[r2].cid )
     => /\ ~(call[r1].result = "Success" /\ call[r2].result = "Success")
        /\ ~(call[r1].wrote # {} /\ call[r2].wrote # {})

\* C10: a joinContest call that does not return success has written
\* neither a Participation record nor the contest's counter.
C10_JoinAllOrNothing ==
  \A r \in Calls :
     (call[r].op = "join" /\ Done(r) /\ call[r].result # "Success")
        => call[r].wrote = {}

\* C11: while no administrator has called changeStatus, the stored status
\* of a contest is the status derived from the clock.
C11_StatusFollowsClock ==
  \A cid \in DOMAIN contests :
     contests[cid].status = updateStatus(contests[cid], now)

NotOpenKinds == {"NotStarted", "AlreadyEnded", "NotOngoing"}

\* C12: a joinContest call that reaches its timing checks (the caller has
\* not joined yet) is answered NotOpen, with no participation created and
\* the counter unchanged, whenever its clock reading is before startTime or
\* after endTime or the status of its contest document is not ONGOING; with
\* startTime <= now <= endTime and status ONGOING it is not answered NotOpen.
C12_NotOpenOutsideWindow ==
  [][\A r \in Calls :
       (/\ call[r].op = "join" /\ call[r].pc = "j_findOne"
        /\ call'[r] # call[r]
        /\ FindOne(call[r].user, call[r].cid) = 0)
       => LET contest == call[r].contest
              closed == \/ now < contest.startTime
                        \/ now > contest.endTime
                        \/ contest.status # "ONGOING"
          IN IF closed
             THEN /\ call'[r].pc = "done"
                  /\ call'[r].result \in NotOpenKinds
                  /\ call'[r].wrote = {}
                  /\ participations' = participations
                  /\ contests' = contests
             ELSE call'[r].result \notin NotOpenKinds]_vars

\* one join rejected as not open, another let through at the end instant
C12_Witness ==
  \E r1, r2 \in Calls :
     /\ call[r1].op = "join" /\ call[r1].result \in NotOpenKinds
     /\ call[r2].op = "join" /\ call[r2].pc = "j_create"
     /\ call[r2].now = call[r2].contest.endTime

\* C13: a submitContest call for a joined, not yet completed participation
\* is answered Ended and leaves the participation unchanged whenever
\* now > endTime; at any now <= endTime, the end instant included, it is
\* not answered Ended.
C13_EndedAfterEndTime ==
  [][\A r \in Calls :
       LET idx == FindOne(call[r].user, call[r].cid)
       IN (/\ call[r].op = "submit" /\ call[r].pc = "s_findOne"
           /\ call'[r] # call[r]
           /\ idx # 0
           /\ ~participations[idx].isCompleted)
          => IF now > call[r].contest.endTime
             THEN /\ call'[r].pc = "done"
                  /\ call'[r].result = "Ended"
                  /\ call'[r].wrote = {}
                  /\ participations' = participations
             ELSE call'[r].result # "Ended"]_vars

\* one submit rejected as ended, another graded at the end instant
C13_Witness ==
  \E r1, r2 \in Calls :
     /\ call[r1].op = "submit" /\ call[r1].result = "Ended"
     /\ call[r2].op = "submit" /\ call[r2].pc = "s_save"
     /\ call[r2].local.submittedAt = call[r2].contest.endTime

\* the set of values of an array
Range(s) == { s[i] : i \in 1..Len(s) }

\* C14: calculateScore marks a multi-select answer correct iff the set of
\* its selected indices equals the set of the correct indices of its
\* question, whatever the order of the selection, and gives it the
\* question's points if correct and 0 otherwise.
C14_MultiSelectIsSetEquality ==
  \A k \in 1..Len(participations) :
     LET p == participations[k]
         qs == contests[p.contestId].questions
     IN p.isCompleted =>
        \A i \in 1..Len(p.answers) :
           LET a == p.answers[i]
           IN (HasQuestion(a, qs) /\ qs[a.questionIndex + 1].type = "multi-select")
              => LET q == qs[a.questionIndex + 1]
                     correct == { j \in 0..(Len(q.options) - 1) : q.options[j + 1] }
                 IN /\ a.isCorrect <=> (Range(a.selectedOptions) = correct)
                    /\ a.pointsEarned = IF a.isCorrect THEN q.points ELSE 0

RECURSIVE TotalPoints(_)
\* sum of the pointsEarned of an answers array
TotalPoints(answers) ==
  IF answers = <<>> THEN 0
  ELSE Head(answers).pointsEarned + TotalPoints(Tail(answers))

\* C15: calculateScore marks a single-select or true-false answer with one
\* selected option correct iff that option's isCorrect flag is set; the
\* answer earns exactly the question's points when correct and 0 otherwise,
\* and the score of the participation is the sum of the points earned by
\* its answers, never negative.
C15_OneOptionAllOrNothing ==
  \A k \in 1..Len(participations) :
     LET p == participations[k]
         qs == contests[p.contestId].questions
     IN p.isCompleted =>
        /\ p.score = TotalPoints(p.answers)
        /\ p.score >= 0
        /\ \A i \in 1..Len(p.answers) :
              LET a == p.answers[i]
              IN (/\ HasQuestion(a, qs)
                  /\ qs[a.questionIndex + 1].type \in {"single-select", "true-false"}
                  /\ Len(a.selectedOptions) = 1)
                 => LET q == qs[a.questionIndex + 1]
                        o == a.selectedOptions[1] + 1
                    IN /\ a.isCorrect <=> (o \in 1..Len(q.options) /\ q.options[o])
                       /\ a.pointsEarned = IF a.isCorrect THEN q.points ELSE 0

\* a graded participation with a correct single-select answer and a wrong
\* true-false answer
C15_Witness ==
  \E k \in 1..Len(participations) :
     LET p == participations[k]
         qs == contests[p.contestId].questions
     IN /\ p.isCompleted /\ Len(p.answers) = 2 /\ Len(qs) = 2
        /\ p.answers[1].questionIndex = 0 /\ p.answers[2].questionIndex = 1
        /\ qs[1].type = "single-select" /\ qs[2].type = "true-false"
        /\ Len(p.answers[1].selectedOptions) = 1
        /\ Len(p.answers[2].selectedOptions) = 1
        /\ p.answers[1].isCorrect /\ ~p.answers[2].isCorrect
        /\ p.score = qs[1].points

\* a leaderboard call that has run its find
Listed(r) ==
  /\ call[r].op = "leaderboard"
  /\ \/ call[r].pc \in {"l_findOne", "l_count"}
     \/ call[r].pc = "done" /\ call[r].result = "Success"

\* C16: the list contestLeaderboard returns holds only completed
\* participations of the requested contest (all of them, up to the limit),
\* each once, ordered by score descending and among equal scores by
\* submittedAt ascending, with rank i at position i; two entries that
\* differ in (score, submittedAt) are therefore ordered by these alone.
C16_LeaderboardOrder ==
  \A r \in Calls : Listed(r) =>
     LET b == call[r].leaderboard
         completed == { k \in 1..Len(participations) :
                          /\ participations[k].contestId = call[r].cid
                          /\ participations[k].isCompleted }
     IN /\ \A i \in 1..Len(b) :
             /\ b[i].id \in completed
             /\ b[i].userId = participations[b[i].id].userId
             /\ b[i].score = participations[b[i].id].score
             /\ b[i].submittedAt = participations[b[i].id].submittedAt
             /\ b[i].rank = i
        /\ \A i, j \in 1..Len(b) : i # j => b[i].id # b[j].id
        /\ Len(b) = IF Cardinality(completed) < LeaderboardLimit
                    THEN Cardinality(completed) ELSE LeaderboardLimit
        /\ \A i, j \in 1..Len(b) : i < j =>
             \/ b[i].score > b[j].score
             \/ b[i].score = b[j].score /\ b[i].submittedAt <= b[j].submittedAt

\* a list of two entries with equal scores, the earlier submission first
\* although its owner joined later, and a third record left out
C16_Witness ==
  \E r \in Calls :
     /\ call[r].pc = "done" /\ call[r].op = "leaderboard"
     /\ Len(call[r].leaderboard) = 2 /\ Len(participations) = MaxRows
     /\ call[r].leaderboard[1].score = call[r].leaderboard[2].score
     /\ call[r].leaderboard[1].submittedAt < call[r].leaderboard[2].submittedAt
     /\ call[r].leaderboard[1].userId > call[r].leaderboard[2].userId

\* C17: userRank is 1 plus the number of other completed participations of
\* the contest with a strictly higher score, or the same score and a
\* strictly earlier submittedAt; it is null iff the caller has no completed
\* participation in the contest.
C17_UserRankCountsAhead ==
  \A r \in Calls :
     (call[r].op = "leaderboard" /\ call[r].pc = "done"
        /\ call[r].result = "Success") =>
     LET mine == { k \in 1..Len(participations) :
                     /\ participations[k].userId = call[r].user
                     /\ participations[k].contestId = call[r].cid
                     /\ participations[k].isCompleted }
     IN /\ (call[r].userRank = NullRank) <=> (mine = {})
        /\ \A m \in mine :
              call[r].userRank = 1 + Cardinality(
                { k \in 1..Len(participations) \ {m} :
                    /\ participations[k].contestId = call[r].cid
                    /\ participations[k].isCompleted
                    /\ \/ participations[k].score > participations[m].score
                       \/ /\ participations[k].score = participations[m].score
                          /\ participations[k].submittedAt
                               < participations[m].submittedAt })

\* one caller ranked second behind an equal score submitted earlier,
\* another who joined but did not submit and gets no rank
C17_Witness ==
  \E r1, r2 \in Calls :
     /\ call[r1].op = "leaderboard" /\ call[r1].pc = "done"
     /\ call[r1].userRank = 2
     /\ \A k \in 1..Len(participations) :
           participations[k].isCompleted =>
             participations[k].score = participations[1].score
     /\ call[r2].op = "leaderboard" /\ call[r2].pc = "done"
     /\ call[r2].result = "Success" /\ call[r2].user # Anonymous
     /\ call[r2].userRank = NullRank
     /\ FindOne(call[r2].user, call[r2].cid) # 0

QuestionOps == {"addQuestion", "editQuestion", "deleteQuestion"}

\* C18: an addQuestion, editQuestion or deleteQuestion request handled at a
\* time now >= startTime is rejected and leaves the question list as it
\* is; at now < startTime it is not rejected for the contest having
\* started, and only such a request gets to save a changed question list.
C18_QuestionsFrozenAfterStart ==
  [][\A r \in Calls :
       /\ (call[r].op = "idle" /\ call'[r].op \in QuestionOps) =>
            IF now >= contests[call'[r].cid].startTime
            THEN /\ call'[r].pc = "done"
                 /\ call'[r].result \in {"AlreadyStarted", "InvalidIndex"}
                 /\ call'[r].wrote = {}
                 /\ contests' = contests
            ELSE call'[r].result # "AlreadyStarted"
       /\ (call[r].op \in QuestionOps /\ call[r].pc = "q_save") =>
            call[r].now < call[r].contest.startTime
       /\ (call[r].op \in QuestionOps /\ call[r].pc = "done"
              /\ call[r].result # "Success") =>
            call[r].wrote = {}]_vars

\* a question request rejected at the start instant, after another one
\* changed the question list before the start
C18_Witness ==
  \E r1, r2 \in Calls :
     /\ call[r1].op \in QuestionOps /\ call[r1].result = "Success"
     /\ contests[call[r1].cid].questions # <<SingleQ, MultiQ>>
     /\ call[r2].op \in QuestionOps /\ call[r2].result = "AlreadyStarted"
     /\ now = contests[call[r2].cid].startTime

\* C19: an updateContest request handled at now >= startTime changes at
\* most description, prizeInfo and maxParticipants (name, type, startTime,
\* endTime, status and questions stay), and is rejected with the contest
\* unchanged if it carries none of the three; handled at now < startTime,
\* every field it supplies is applied.
C19_UpdateAfterStartIsLimited ==
  [][\A r \in Calls :
       /\ (call[r].op = "idle" /\ call'[r].op = "updateContest") =>
            LET body == StripUnknown(call'[r].body)
                contest == contests[call'[r].cid]
            IN /\ contests' = contests
               /\ (/\ now >= contest.startTime
                   /\ DOMAIN call'[r].body \cap
                         {"description", "prizeInfo", "maxParticipants"} = {})
                    => call'[r].pc = "done" /\ call'[r].result # "Success"
               /\ (now < contest.startTime /\ UpdateValid(body, now))
                    => call'[r].pc = "u_save"
       /\ (call[r].op = "updateContest" /\ call[r].pc = "u_save"
              /\ call'[r].pc = "done") =>
            LET c == call[r]
                started == c.now >= c.contest.startTime
                old == contests[c.cid]
                new == contests'[c.cid]
            IN /\ \A f \in DOMAIN old :
                    new[f] # old[f] =>
                      /\ f \in DOMAIN c.body /\ new[f] = c.body[f]
                      /\ f \notin {"status", "questions"}
                      /\ started =>
                           f \in {"description", "prizeInfo", "maxParticipants"}
               /\ call'[r].result = "Success" =>
                    \A f \in DOMAIN c.body \cap UpdateFields :
                       (~started \/ f \in {"description", "prizeInfo",
                                            "maxParticipants"})
                         => new[f] = c.body[f]]_vars

\* one update applied in full before the start (the contest became VIP
\* with a later window), another one after the new start that carried a
\* status and a prizeInfo and changed the prizeInfo alone
C19_Witness ==
  \E r1, r2 \in Calls :
     /\ call[r1].op = "updateContest" /\ call[r1].result = "Success"
     /\ call[r2].op = "updateContest" /\ call[r2].result = "Success"
     /\ contests[1].type = "VIP" /\ contests[1].startTime = 2 * TickMillis
     /\ now >= contests[1].startTime
     /\ contests[1].prizeInfo = "prizeInfo1"
     /\ contests[1].status = "UPCOMING"
     /\ contests[1].name = "name0"

\* C20: every Participation refers to a contest that is still in the
\* store: deleteContest removes a contest only if no Participation exists
\* for it, also when it runs interleaved with joinContest.
C20_NoOrphanParticipation ==
  \A k \in 1..Len(participations) :
     participations[k].contestId \in DOMAIN contests

\* C21: changeStatus stores the requested status for each of UPCOMING,
\* ONGOING and ENDED, at any time and from any current status, with no
\* check against the clock; for any other value it fails InvalidState and
\* the stored status stays.
C21_ChangeStatusSetsRequested ==
  [][\A r \in Calls :
       /\ (call[r].op = "idle" /\ call'[r].op = "changeStatus") =>
            /\ contests' = contests
            /\ IF call'[r].body.status \in {"UPCOMING", "ONGOING", "ENDED"}
               THEN call'[r].pc = "c_save"
               ELSE /\ call'[r].pc = "done"
                    /\ call'[r].result = "InvalidState"
                    /\ call'[r].wrote = {}
       /\ (call[r].op = "changeStatus" /\ call[r].pc = "c_save"
              /\ call'[r].pc = "done") =>
            /\ call'[r].result = "Success"
            /\ call[r].body.status \in {"UPCOMING", "ONGOING", "ENDED"}
            \* a request for the status the contest already had when it was
            \* read writes nothing, so a status stored by another request in
            \* between stays: the request then took effect when it read
            /\ (\/ call[r].body.status # call[r].contest.status
                \/ contests[call[r].cid].status = call[r].contest.status)
                 => contests'[call[r].cid].status = call[r].body.status]_vars

\* the contest forced to ENDED before its start time, and a request for
\* PAUSED refused
C21_Witness ==
  \E r1, r2 \in Calls :
     /\ call[r1].op = "changeStatus" /\ call[r1].result = "Success"
     /\ call[r2].op = "changeStatus" /\ call[r2].result = "InvalidState"
     /\ contests[1].status = "ENDED" /\ now < contests[1].startTime

\* C22: the list allContest returns holds only active contests, and for an
\* anonymous caller or a caller of role normal it never holds a VIP
\* contest, whatever status and type are requested.
C22_CatalogHidesVip ==
  \A r \in Calls :
     call[r].op = "allContest" =>
       \A i \in 1..Len(call[r].listing) :
          LET contest == contests[call[r].listing[i].id]
          IN /\ contest.isActive
             /\ (call[r].user = Anonymous \/ Role(call[r].user) = "normal")
                  => contest.type # "VIP"

\* C23: a joinContest on a VIP contest by a caller whose role is neither
\* vip nor admin is answered AccessDenied, whatever else is wrong with the
\* request (already joined, not open, full), and writes nothing; the
\* leaderboard and the detail view of a VIP contest are answered
\* AccessDenied, with no data, to every caller who is not vip or admin.
C23_VipGate ==
  /\ \A r \in Calls :
       (/\ call[r].op \in {"join", "leaderboard", "contestById"}
        /\ call[r].cid \in DOMAIN contests
        /\ contests[call[r].cid].type = "VIP"
        /\ \/ call[r].user = Anonymous
           \/ Role(call[r].user) \notin {"vip", "admin"})
       => /\ call[r].pc = "done"
          /\ call[r].result = "AccessDenied"
          /\ call[r].wrote = {}
          /\ call[r].leaderboard = <<>>
          /\ call[r].userRank = NullRank
          /\ call[r].detail = NoDetail
  /\ \A k \in 1..Len(participations) :
       contests[participations[k].contestId].type = "VIP"
         => Role(participations[k].userId) \in {"vip", "admin"}

\* a full VIP contest that is not open: the normal identity's join is
\* refused as AccessDenied (not Full or NotOpen) and a guest's detail view
\* is refused
C23_Witness ==
  \E r1, r2 \in Calls :
     /\ contests[1].type = "VIP" /\ contests[1].status = "UPCOMING"
     /\ contests[1].currentParticipants >= contests[1].maxParticipants
     /\ call[r1].op = "join" /\ call[r1].result = "AccessDenied"
     /\ call[r2].op = "contestById" /\ call[r2].user = Anonymous
     /\ call[r2].result = "AccessDenied"

\* C24: every stored contest has endTime > startTime, after any createContest
\* and updateContest calls.
C24_EndAfterStart ==
  \A cid \in DOMAIN contests : contests[cid].endTime > contests[cid].startTime

\* C25: every stored contest has 0 <= currentParticipants <= maxParticipants,
\* after any joinContest and updateContest calls.
C25_ParticipantsWithinCapacity ==
  \A cid \in DOMAIN contests :
     /\ 0 <= contests[cid].currentParticipants
     /\ contests[cid].currentParticipants <= contests[cid].maxParticipants

WellFormedQuestion(question) ==
  /\ NumCorrect(question) >= 1
  /\ question.type \in {"single-select", "true-false"} =>
        NumCorrect(question) = 1
  /\ question.type = "true-false" => Len(question.options) = 2

\* C26: every stored question has at least one correct option, exactly one
\* if it is single-select or true-false, and exactly two options if it is
\* true-false; an addQuestion or editQuestion whose question list would
\* break this is rejected and leaves the stored contest as it is.
C26_QuestionsWellFormed ==
  /\ [](\A cid \in DOMAIN contests :
          \A i \in 1..Len(contests[cid].questions) :
             WellFormedQuestion(contests[cid].questions[i]))
  /\ [][\A r \in Calls :
          (/\ call[r].op \in {"addQuestion", "editQuestion"}
           /\ call[r].pc = "q_save" /\ call'[r].pc = "done"
           /\ \E i \in 1..Len(call[r].edit.questions) :
                 ~WellFormedQuestion(call[r].edit.questions[i]))
          => /\ call'[r].result # "Success"
             /\ contests' = contests]_vars

\* an editQuestion and an addQuestion both refused by the save, after the
\* handler let them through, with the questions of the contest still there
C26_Witness ==
  \E r1, r2 \in Calls :
     /\ call[r1].op = "editQuestion" /\ call[r1].err = "PreSaveError"
     /\ call[r2].op = "addQuestion" /\ call[r2].err = "PreSaveError"
     /\ contests[call[r1].cid].questions # <<>>

\* C27: a stored Participation is completed exactly when its submittedAt is
\* set, and while it is not completed its score, correctAnswers and
\* wrongAnswers are 0 and its graded answer list is empty.
C27_CompletedIffSubmitted ==
  \A k \in 1..Len(participations) :
     LET p == participations[k]
     IN /\ p.isCompleted <=> p.submittedAt # NullDate
        /\ ~p.isCompleted =>
              /\ p.score = 0 /\ p.correctAnswers = 0 /\ p.wrongAnswers = 0
              /\ p.answers = <<>>

\* a submission stored for one user while another user's record is open
C27_Witness ==
  \E r \in Calls, k1, k2 \in 1..Len(participations) :
     /\ call[r].op = "submit" /\ call[r].result = "Success"
     /\ participations[k1].userId = call[r].user
     /\ participations[k1].isCompleted
     /\ ~participations[k2].isCompleted

StatusOrder(status) ==
  CASE status = "UPCOMING" -> 1 [] status = "ONGOING" -> 2
    [] status = "ENDED" -> 3 [] OTHER -> 0

\* the statuses whose condition of the rule holds for a window at time t
StatusesAt(contest, t) ==
  (IF t < contest.startTime THEN {"UPCOMING"} ELSE {})
  \cup (IF contest.startTime <= t /\ t <= contest.endTime
         THEN {"ONGOING"} ELSE {})
  \cup (IF t > contest.endTime THEN {"ENDED"} ELSE {})

\* C28: for a contest with endTime > startTime, the status derived by
\* Contest.updateStatus at time now is UPCOMING iff now < startTime, ONGOING
\* iff startTime <= now <= endTime, ENDED iff now > endTime: exactly one of
\* the three at every instant, the one updateStatus stores, and as now
\* increases it only moves forward along UPCOMING, ONGOING, ENDED.
C28_DerivedStatus ==
  /\ [](\A cid \in DOMAIN contests :
          /\ contests[cid].endTime > contests[cid].startTime
          /\ StatusesAt(contests[cid], now) =
                {updateStatus(contests[cid], now)})
  /\ [](\A r \in Calls :
          call[r].op = "updateStatus" =>
             StatusesAt(contests[call[r].cid], call[r].now) = {call[r].result})
  /\ [][\A cid \in DOMAIN contests :
          /\ StatusOrder(updateStatus(contests'[cid], now')) >=
                StatusOrder(updateStatus(contests[cid], now))
          /\ \A r \in Calls :
                (call[r].op = "idle" /\ call'[r].op = "updateStatus") =>
                   contests'[cid].status \in StatusesAt(contests[cid], now)]_vars

\* updateStatus ran at the end instant and again after it
C28_Witness ==
  \E r1, r2 \in Calls :
     /\ call[r1].op = "updateStatus" /\ call[r1].result = "ONGOING"
     /\ call[r1].now = contests[call[r1].cid].endTime
     /\ call[r2].op = "updateStatus" /\ call[r2].result = "ENDED"
     /\ contests[call[r2].cid].status = "ENDED"

\* C29: in a contestLeaderboard response, the rank (index + 1) of the
\* caller's own entry equals the userRank of the same response, also when
\* several participations have the same score and the same submittedAt.
C29_PositionRankIsUserRank ==
  \A r \in Calls :
     (/\ call[r].op = "leaderboard" /\ call[r].pc = "done"
      /\ call[r].result = "Success" /\ call[r].userRank # NullRank)
     => \A i \in 1..Len(call[r].leaderboard) :
           call[r].leaderboard[i].userId = call[r].user =>
              call[r].leaderboard[i].rank = call[r].userRank

\* C30: the list the administrator's getLeaderboard returns holds only
\* completed participations of the contest, in an order and with the ranks
\* that contestLeaderboard gives them.
C30_AdminBoardSameRule ==
  \A r \in Calls :
     (call[r].op = "getLeaderboard" /\ call[r].pc = "done"
        /\ call[r].result = "Success")
     => LET b == call[r].leaderboard
        IN /\ \A i \in 1..Len(b) :
                /\ participations[b[i].id].isCompleted
                /\ b[i].rank = i
           /\ [i \in 1..Len(b) |-> b[i].id] \in FindCompletedSorted(call[r].cid)

\* C31: while the status stored by changeStatus is not ONGOING, a
\* joinContest or submitContest call answered at a time inside
\* [startTime, endTime] is rejected and stores nothing.
C31_OverrideRejectsJoinAndSubmit ==
  [][\A r \in Calls :
       (/\ call[r].op \in {"join", "submit"}
        /\ call[r].pc # "done" /\ call'[r].pc = "done"
        /\ contests[call[r].cid].status # "ONGOING"
        /\ contests[call[r].cid].startTime <= now
        /\ now <= contests[call[r].cid].endTime)
       => /\ call'[r].result # "Success"
          /\ participations' = participations]_vars

\* C32: for an authenticated caller, every contest of the allContest
\* response carries a participation summary: hasJoined iff the caller has a
\* Participation for the contest, with its stored isCompleted and score,
\* and, when it is completed, the caller's leaderboard rank; the call
\* changes no stored state.
C32_CatalogSummary ==
  /\ [](\A r \in Calls :
          (/\ call[r].op = "allContest" /\ call[r].pc = "done"
           /\ call[r].result = "Success" /\ call[r].user # Anonymous)
          => \A i \in 1..Len(call[r].listing) :
                LET e == call[r].listing[i]
                    idx == FindOne(call[r].user, e.id)
                IN /\ "participationStatus" \in DOMAIN e
                   /\ e.participationStatus.hasJoined <=> idx # 0
                   /\ idx # 0 =>
                        /\ e.participationStatus.isCompleted =
                              participations[idx].isCompleted
                        /\ e.participationStatus.score = participations[idx].score
                        /\ participations[idx].isCompleted =>
                              e.participationStatus.rank =
                                CountAhead(e.id, participations[idx]) + 1)
  /\ [][\A r \in Calls :
          (call[r].op = "allContest" \/ call'[r].op = "allContest")
          => contests' = contests /\ participations' = participations]_vars

\* C33: the totalQuestions of every stored Participation equals the length
\* of the question list of its contest.
C33_TotalQuestionsIsListLength ==
  \A k \in 1..Len(participations) :
     participations[k].contestId \in DOMAIN contests =>
        participations[k].totalQuestions =
          Len(contests[participations[k].contestId].questions)

RECURSIVE QuestionPoints(_)
\* sum of the points of a question list
QuestionPoints(questions) ==
  IF questions = <<>> THEN 0
  ELSE Head(questions).points + QuestionPoints(Tail(questions))

C35_GradedCountIsTotal ==
  \A k \in 1..Len(participations) :
     participations[k].isCompleted =>
        /\ participations[k].correctAnswers + participations[k].wrongAnswers
              = participations[k].totalQuestions
        /\ Len(participations[k].answers) = participations[k].totalQuestions

\* C36: a contestById response carries the question list only if the caller
\* has a Participation for the contest or now > endTime: an anonymous
\* caller, or one who has not joined, never gets the questions at a time
\* now <= endTime, and a rejected request gets none.
C36_QuestionsOnlyAfterJoinOrEnd ==
  [][\A r \in Calls :
       (call[r].pc # "done" /\ call'[r].pc = "done"
          /\ call'[r].op = "contestById")
       => (call'[r].detail.hasQuestions =>
             /\ call'[r].result = "Success"
             /\ \/ /\ call'[r].user # Anonymous
                   /\ FindOne(call'[r].user, call'[r].cid) # 0
                \/ now > contests[call'[r].cid].endTime)]_vars

\* before the end of the contest, a caller without participation was
\* answered without the questions and one who joined was answered with them
C36_Witness ==
  \E r1, r2 \in Calls :
     /\ call[r1].op = "contestById" /\ call[r1].result = "Success"
     /\ FindOne(call[r1].user, call[r1].cid) = 0
     /\ ~call[r1].detail.hasQuestions
     /\ call[r2].op = "contestById" /\ call[r2].result = "Success"
     /\ call[r2].detail.hasQuestions /\ call[r2].detail.hasJoined
     /\ now <= contests[call[r2].cid].endTime

====
